---- MODULE Spec2Model ----
(***************************************************************************)
(* Model of the validation library (libs/validators) and of the            *)
(* ReceivingAddress step of the swap tab.                                  *)
(*                                                                         *)
(* JavaScript values are records [t |-> <typeof tag>, v |-> <payload>].    *)
(* A JavaScript string is a sequence of one-character strings, so that     *)
(* substring, toUpperCase, lastIndexOf and the regular expressions are     *)
(* computed character by character.                                        *)
(***************************************************************************)
EXTENDS Integers, Sequences, FiniteSets, TLC

VARIABLES
  pc,                  \* "call" before the validator under check ran, "done" after
  fn,                  \* the validator that ran
  arg,                 \* the input handed to the validator
  out,                 \* its outcome: a returned value or a thrown error
  log,                 \* calls made to collaborators (checksum function, fallback)
  env,                 \* what the external collaborators answer in this run
  destinationAddress,  \* ReceivingAddress props.destinationAddress
  destination,         \* ReceivingAddress props.destination
  origin,              \* ReceivingAddress props.origin
  submitDisabled,      \* the disabled attribute the last render gave the submit button
  requests             \* calls of props.bityOrderCreateRequestedSwap so far

ui == <<destinationAddress, destination, origin, submitDisabled, requests>>

vars == <<pc, fn, arg, out, log, env, ui>>

(***************************************************************************)
(* JavaScript values and outcomes                                          *)
(***************************************************************************)
Str(s) == [t |-> "string", v |-> s]
Num(n) == [t |-> "number", v |-> n]
Bool(b) == [t |-> "boolean", v |-> b]
Undefined == [t |-> "undefined", v |-> "undefined"]
Null == [t |-> "null", v |-> "null"]
Obj(o) == [t |-> "object", v |-> o]
Buf(b) == [t |-> "buffer", v |-> b]
Arr(a) == [t |-> "array", v |-> a]

\* typeof x
typeof(x) ==
  CASE x.t = "null" -> "object"
    [] x.t = "buffer" -> "object"
    [] x.t = "array" -> "object"
    [] OTHER -> x.t

Return(x) == [kind |-> "return", val |-> x, name |-> "", msg |-> <<>>]
Throw(n, m) == [kind |-> "throw", val |-> Undefined, name |-> n, msg |-> m]
Pending == [kind |-> "pending", val |-> Undefined, name |-> "", msg |-> <<>>]

Min(a, b) == IF a < b THEN a ELSE b

\* String.prototype.substring(from) and substring(from, to), 0-based, clamped
substringFrom(s, from) == SubSeq(s, Min(from, Len(s)) + 1, Len(s))
substring(s, from, to) == SubSeq(s, Min(from, Len(s)) + 1, Min(to, Len(s)))

Digits == {"0", "1", "2", "3", "4", "5", "6", "7", "8", "9"}
LowerHex == {"a", "b", "c", "d", "e", "f"}
UpperHex == {"A", "B", "C", "D", "E", "F"}
LowerToUpper ==
  [c \in {"a", "b", "c", "d", "e", "f", "g", "x"} |->
     CASE c = "a" -> "A" [] c = "b" -> "B" [] c = "c" -> "C" [] c = "d" -> "D"
       [] c = "e" -> "E" [] c = "f" -> "F" [] c = "g" -> "G" [] c = "x" -> "X"]

\* The characters one character upper-cases to. U+FB00 is the ligature ff,
\* which String.prototype.toUpperCase expands to the two characters FF.
upperOfChar(c) ==
  IF c \in DOMAIN LowerToUpper THEN <<LowerToUpper[c]>>
  ELSE IF c = "U+FB00" THEN <<"F", "F">>
  ELSE <<c>>

RECURSIVE toUpperCase(_)
toUpperCase(s) ==
  IF s = <<>> THEN <<>> ELSE upperOfChar(Head(s)) \o toUpperCase(Tail(s))

\* /^[0-9A-F]*$/.test(s)
reUpperHexStar(s) == \A i \in 1..Len(s) : s[i] \in Digits \cup UpperHex

(***************************************************************************)
(* isValidHex                                                              *)
(***************************************************************************)
isValidHex_NoStrip(str) ==
  IF typeof(str) # "string" THEN FALSE
  ELSE IF str.v = <<>> THEN TRUE
  ELSE reUpperHexStar(toUpperCase(str.v))

isValidHex(str) ==
  IF typeof(str) # "string" THEN FALSE
  ELSE IF str.v = <<>> THEN TRUE
  ELSE LET s == IF substring(str.v, 0, 2) = <<"0", "x">>
                THEN toUpperCase(substringFrom(str.v, 2))
                ELSE toUpperCase(str.v)
       IN reUpperHexStar(s)

(***************************************************************************)
(* Inputs of the hex validator                                             *)
(***************************************************************************)
MaxHexLen == 4
HexAlphabet == {"0", "x", "X", "a", "F", "g", "U+FB00"}

RECURSIVE StringsUpTo(_, _)
StringsUpTo(alphabet, n) ==
  IF n = 0 THEN {<<>>}
  ELSE LET shorter == StringsUpTo(alphabet, n - 1)
       IN shorter \cup {<<c>> \o s : c \in alphabet, s \in {x \in shorter : Len(x) = n - 1}}

EmptyObject == [k \in {} |-> Undefined]
NonStrings == {Undefined, Null, Num(0), Num(255), Bool(TRUE), Obj(EmptyObject), Buf(<<>>)}
HexInputs == {Str(s) : s \in StringsUpTo(HexAlphabet, MaxHexLen)} \cup NonStrings

NoEnv == [keccakHead |-> <<>>, keccakFill |-> FALSE, btcChecksumOk |-> FALSE]

\* The swap step is not mounted while a validator is checked on its own.
UiIdle ==
  /\ destinationAddress = <<>>
  /\ destination = [id |-> "ETH"]
  /\ origin = Null
  /\ submitDisabled = TRUE
  /\ requests = {}

InitHex ==
  /\ pc = "call"
  /\ fn = "none"
  /\ arg \in HexInputs
  /\ out = Pending
  /\ log = <<>>
  /\ env = NoEnv
  /\ UiIdle

CallIsValidHex ==
  /\ pc = "call"
  /\ out' = Return(Bool(isValidHex(arg)))
  /\ pc' = "done"
  /\ fn' = "isValidHex"
  /\ UNCHANGED <<arg, log, env, ui>>

NextHex == CallIsValidHex

SpecHex == InitHex /\ [][NextHex]_vars

\* What remains of a string once one leading lowercase "0x" is removed.
WithoutLower0x(s) ==
  IF Len(s) >= 2 /\ s[1] = "0" /\ s[2] = "x" THEN SubSeq(s, 3, Len(s)) ELSE s

\* Every character of s upper-cases to characters of 0-9A-F only.
UppercasesToHex(s) ==
  \A i \in 1..Len(s) :
    \A j \in 1..Len(upperOfChar(s[i])) : upperOfChar(s[i])[j] \in Digits \cup UpperHex

\* C6: isValidHex is false for every non-string, true for the empty string, and
\* for another string true exactly when every character left after removing one
\* optional leading lowercase "0x" upper-cases to characters of 0-9A-F only; so
\* "0x" alone is valid and a string starting with uppercase "0X" is not.
C6_IsValidHex ==
  pc = "done" =>
    /\ out.kind = "return"
    /\ arg.t # "string" => out.val = Bool(FALSE)
    /\ arg = Str(<<>>) => out.val = Bool(TRUE)
    /\ arg.t = "string" =>
         (out.val = Bool(TRUE)) <=>
           UppercasesToHex(WithoutLower0x(arg.v))
    /\ arg = Str(<<"0", "x">>) => out.val = Bool(TRUE)
    /\ (arg.t = "string" /\ Len(arg.v) >= 2 /\ arg.v[1] = "0" /\ arg.v[2] = "X")
         => out.val = Bool(FALSE)

\* A "0x"-prefixed string of mixed-case hex digits is accepted.
C6_Witness ==
  /\ pc = "done"
  /\ arg = Str(<<"0", "x", "a", "F">>)
  /\ out.val = Bool(TRUE)

(***************************************************************************)
(* isValidETHAddress, validateEtherAddress, isChecksumAddress              *)
(***************************************************************************)
AddrLen == 40

HexAnyCase == Digits \cup LowerHex \cup UpperHex

UpperToLower ==
  [c \in {"A", "B", "C", "D", "E", "F", "G", "X"} |->
     CASE c = "A" -> "a" [] c = "B" -> "b" [] c = "C" -> "c" [] c = "D" -> "d"
       [] c = "E" -> "e" [] c = "F" -> "f" [] c = "G" -> "g" [] c = "X" -> "x"]

lowerOfChar(c) == IF c \in DOMAIN UpperToLower THEN UpperToLower[c] ELSE c

toLowerCase(s) == [i \in 1..Len(s) |-> lowerOfChar(s[i])]

\* /^(0x)?[class]{40}$/ with the prefix spelled as one of `prefixes`
rePrefixedDigits(s, prefixes, class) ==
  \/ /\ Len(s) = AddrLen
     /\ \A i \in 1..Len(s) : s[i] \in class
  \/ /\ Len(s) = AddrLen + 2
     /\ SubSeq(s, 1, 2) \in prefixes
     /\ \A i \in 3..Len(s) : s[i] \in class

\* /^(0x)?[0-9a-f]{40}$/i
reAddrAnyCase(s) == rePrefixedDigits(s, {<<"0", "x">>, <<"0", "X">>}, HexAnyCase)
\* /^(0x)?[0-9a-f]{40}$/
reAddrLower(s) == rePrefixedDigits(s, {<<"0", "x">>}, Digits \cup LowerHex)
\* /^(0x)?[0-9A-F]{40}$/
reAddrUpper(s) == rePrefixedDigits(s, {<<"0", "x">>}, Digits \cup UpperHex)

\* Whether the keccak digit at 0-based position i is >= 8. The hash itself is
\* not computed: env fixes its high bits for the address of this run.
keccakHigh(e, i) ==
  IF i + 1 <= Len(e.keccakHead) THEN e.keccakHead[i + 1] ELSE e.keccakFill

\* ethereumjs-util toChecksumAddress
toChecksumAddress(address, e) ==
  LET stripped == IF substring(address, 0, 2) = <<"0", "x">>
                  THEN substringFrom(address, 2) ELSE address
      lower == toLowerCase(stripped)
  IN <<"0", "x">> \o
       [i \in 1..Len(lower) |->
          IF keccakHigh(e, i - 1) THEN upperOfChar(lower[i])[1] ELSE lower[i]]

isChecksumAddress(address, e) == address = toChecksumAddress(address, e)

ChecksumCall(address) == [fn |-> "toChecksumAddress", with |-> address]

\* The mutants return what validateEtherAddress returns: the boolean and the
\* calls made to the checksum function.
validateEtherAddress_NoPrefixCheck(address, e) ==
  IF ~reAddrAnyCase(address) THEN [ret |-> FALSE, calls |-> <<>>]
  ELSE IF reAddrLower(address) \/ reAddrUpper(address)
  THEN [ret |-> TRUE, calls |-> <<>>]
  ELSE [ret |-> isChecksumAddress(address, e), calls |-> <<ChecksumCall(address)>>]

validateEtherAddress_AlwaysChecksum(address, e) ==
  IF substring(address, 0, 2) # <<"0", "x">> THEN [ret |-> FALSE, calls |-> <<>>]
  ELSE IF ~reAddrAnyCase(address) THEN [ret |-> FALSE, calls |-> <<>>]
  ELSE [ret |-> isChecksumAddress(address, e), calls |-> <<ChecksumCall(address)>>]

validateEtherAddress(address, e) ==
  IF substring(address, 0, 2) # <<"0", "x">> THEN [ret |-> FALSE, calls |-> <<>>]
  ELSE IF ~reAddrAnyCase(address) THEN [ret |-> FALSE, calls |-> <<>>]
  ELSE IF reAddrLower(address) \/ reAddrUpper(address)
  THEN [ret |-> TRUE, calls |-> <<>>]
  ELSE [ret |-> isChecksumAddress(address, e), calls |-> <<ChecksumCall(address)>>]

\* !x
Falsy(x) ==
  \/ x.t \in {"undefined", "null"}
  \/ x = Bool(FALSE)
  \/ x = Num(0)
  \/ x = Str(<<>>)

ZeroAddress == <<"0", "x">> \o [i \in 1..AddrLen |-> "0"]

NotAFunction(prop) == Throw("TypeError", <<prop, " is not a function">>)

\* [run |-> outcome, calls |-> calls to the checksum function]
isValidETHAddress(address, e) ==
  IF Falsy(address) THEN [run |-> Return(Bool(FALSE)), calls |-> <<>>]
  ELSE IF address = Str(ZeroAddress) THEN [run |-> Return(Bool(FALSE)), calls |-> <<>>]
  ELSE IF address.t # "string"
  THEN [run |-> NotAFunction("address.substring"), calls |-> <<>>]
  ELSE LET r == validateEtherAddress(address.v, e)
       IN [run |-> Return(Bool(r.ret)), calls |-> r.calls]

(***************************************************************************)
(* Inputs of the address validator: an optional prefix, a few freely       *)
(* chosen leading characters, then one character repeated up to a length   *)
(* around AddrLen.                                                         *)
(***************************************************************************)
MaxHead == 2
AddrAlphabet == {"0", "a", "A", "g"}
AddrFill == {"0", "a", "A"}
AddrPrefixes == {<<>>, <<"0", "x">>, <<"0", "X">>}

AddrStrings ==
  {p \o h \o [i \in 1..(n - Len(h)) |-> f] :
     p \in AddrPrefixes, h \in StringsUpTo(AddrAlphabet, MaxHead),
     f \in AddrFill, n \in (AddrLen - 1)..(AddrLen + 1)}
  \cup {<<>>}

KeccakEnvs ==
  {[keccakHead |-> h, keccakFill |-> f, btcChecksumOk |-> FALSE] :
     h \in {m \in StringsUpTo(BOOLEAN, MaxHead) : Len(m) = MaxHead}, f \in BOOLEAN}

InitAddr ==
  /\ pc = "call"
  /\ fn = "none"
  /\ arg \in {Str(s) : s \in AddrStrings}
  /\ out = Pending
  /\ log = <<>>
  /\ env \in KeccakEnvs
  /\ UiIdle

CallIsValidETHAddress ==
  /\ pc = "call"
  /\ out' = isValidETHAddress(arg, env).run
  /\ log' = isValidETHAddress(arg, env).calls
  /\ pc' = "done"
  /\ fn' = "isValidETHAddress"
  /\ UNCHANGED <<arg, env, ui>>

NextAddr == CallIsValidETHAddress

SpecAddr == InitAddr /\ [][NextAddr]_vars

\* "0x" followed by exactly AddrLen characters of `class`
Is0xThenDigits(s, class) ==
  /\ Len(s) = AddrLen + 2
  /\ s[1] = "0"
  /\ s[2] = "x"
  /\ \A i \in 3..Len(s) : s[i] \in class

\* C4 as stated: every "0x" + 40 lowercase-hex or "0x" + 40 uppercase-hex string
\* is accepted by isValidETHAddress, whatever its checksum.
C4_AllSingleCaseAccepted ==
  (/\ pc = "done"
   /\ \/ Is0xThenDigits(arg.v, Digits \cup LowerHex)
      \/ Is0xThenDigits(arg.v, Digits \cup UpperHex))
  => out = Return(Bool(TRUE))

\* C4 amended: every "0x" + 40 lowercase-hex or "0x" + 40 uppercase-hex string
\* other than the all-zero address is accepted, whatever its checksum.
C4_SingleCaseAcceptedExceptZero ==
  (/\ pc = "done"
   /\ \/ Is0xThenDigits(arg.v, Digits \cup LowerHex)
      \/ Is0xThenDigits(arg.v, Digits \cup UpperHex)
   /\ arg.v # ZeroAddress)
  => out = Return(Bool(TRUE))

\* An all-lowercase address whose checksum form differs from it is accepted.
C4_Witness ==
  /\ pc = "done"
  /\ Is0xThenDigits(arg.v, Digits \cup LowerHex)
  /\ toChecksumAddress(arg.v, env) # arg.v
  /\ out = Return(Bool(TRUE))

\* C5: isValidETHAddress(a) is true exactly when a is non-empty, is not the
\* all-zero address, is "0x" followed by exactly 40 hex digits, and is all
\* lowercase, all uppercase or equal to its checksum form; the checksum
\* function is called only for mixed-case addresses; 40 hex digits without the
\* "0x" prefix are rejected.
C5_IsValidETHAddress ==
  pc = "done" =>
    /\ out.kind = "return"
    /\ (out.val = Bool(TRUE)) <=>
         /\ arg.v # <<>>
         /\ arg.v # ZeroAddress
         /\ Is0xThenDigits(arg.v, HexAnyCase)
         /\ \/ Is0xThenDigits(arg.v, Digits \cup LowerHex)
            \/ Is0xThenDigits(arg.v, Digits \cup UpperHex)
            \/ arg.v = toChecksumAddress(arg.v, env)
    /\ log # <<>> =>
         /\ \E i \in 3..Len(arg.v) : arg.v[i] \in LowerHex
         /\ \E i \in 3..Len(arg.v) : arg.v[i] \in UpperHex
    /\ (Len(arg.v) = AddrLen /\ \A i \in 1..Len(arg.v) : arg.v[i] \in HexAnyCase)
         => out.val = Bool(FALSE)

\* A mixed-case address that equals its checksum form is accepted after the
\* checksum function was called.
C5_Witness ==
  /\ pc = "done"
  /\ log = <<ChecksumCall(arg.v)>>
  /\ out = Return(Bool(TRUE))

(***************************************************************************)
(* isValidPrivKey                                                          *)
(***************************************************************************)
KeyChars == 64
KeyBytes == 32

HexDigitsInOrder ==
  <<"0", "1", "2", "3", "4", "5", "6", "7", "8", "9", "a", "b", "c", "d", "e", "f">>

\* The value of one hex digit, either case
hexValue(c) == (CHOOSE i \in 1..16 : HexDigitsInOrder[i] = lowerOfChar(c)) - 1

\* libs/values stripHexPrefix: removes an optional leading "0x"
stripHexPrefix(s) ==
  IF substring(s, 0, 2) = <<"0", "x">> THEN substringFrom(s, 2) ELSE s

\* Buffer.from(s, 'hex'): decodes pairs of hex digits and stops at the first
\* pair that is not two hex digits (or at a trailing single character).
RECURSIVE bufferFromHex(_)
bufferFromHex(s) ==
  IF Len(s) < 2 THEN <<>>
  ELSE IF s[1] \in HexAnyCase /\ s[2] \in HexAnyCase
  THEN <<16 * hexValue(s[1]) + hexValue(s[2])>> \o bufferFromHex(SubSeq(s, 3, Len(s)))
  ELSE <<>>

\* The order of the secp256k1 group, big-endian
Secp256k1N ==
  <<255, 255, 255, 255, 255, 255, 255, 255, 255, 255, 255, 255, 255, 255, 255, 254,
    186, 174, 220, 230, 175, 72, 160, 59, 191, 210, 94, 140, 208, 54, 65, 65>>

\* a < b for two byte strings of the same length read as big-endian numbers
bytesLess(a, b) ==
  \E i \in 1..Len(a) :
    /\ a[i] < b[i]
    /\ \A j \in 1..(i - 1) : a[j] = b[j]

\* ethereumjs-util isValidPrivate (secp256k1 privateKeyVerify): 32 bytes that
\* encode a scalar k with 0 < k < n
isValidPrivate(bytes) ==
  /\ Len(bytes) = KeyBytes
  /\ \E i \in 1..Len(bytes) : bytes[i] # 0
  /\ bytesLess(bytes, Secp256k1N)

isValidPrivKey_LengthOnly(privkey) ==
  IF typeof(privkey) = "string"
  THEN Len(stripHexPrefix(privkey.v)) = KeyChars
  ELSE IF privkey.t = "buffer"
  THEN Len(privkey.v) = KeyBytes /\ isValidPrivate(privkey.v)
  ELSE FALSE

isValidPrivKey(privkey) ==
  IF typeof(privkey) = "string"
  THEN LET strippedKey == stripHexPrefix(privkey.v)
           initialCheck == Len(strippedKey) = KeyChars
       IN IF initialCheck
          THEN LET keyBuffer == bufferFromHex(strippedKey)
               IN isValidPrivate(keyBuffer)
          ELSE FALSE
  ELSE IF privkey.t = "buffer"
  THEN Len(privkey.v) = KeyBytes /\ isValidPrivate(privkey.v)
  ELSE FALSE

(***************************************************************************)
(* Inputs of the private key validator                                     *)
(***************************************************************************)
MaxKeyHead == 2
KeyAlphabet == {"0", "f", "F", "g"}
KeyFill == {"0", "1", "f", "g"}
KeyPrefixes == {<<>>, <<"0", "x">>}
ByteAlphabet == {0, 1, 255}

KeyStrings ==
  {p \o h \o [i \in 1..(n - Len(h)) |-> f] :
     p \in KeyPrefixes, h \in StringsUpTo(KeyAlphabet, MaxKeyHead),
     f \in KeyFill, n \in (KeyChars - 1)..(KeyChars + 1)}

KeyBuffers ==
  {h \o [i \in 1..(n - Len(h)) |-> f] :
     h \in StringsUpTo(ByteAlphabet, MaxKeyHead),
     f \in ByteAlphabet, n \in (KeyBytes - 1)..(KeyBytes + 1)}

KeyInputs ==
  {Str(s) : s \in KeyStrings} \cup {Buf(b) : b \in KeyBuffers}
    \cup (NonStrings \ {Buf(<<>>)})

InitKey ==
  /\ pc = "call"
  /\ fn = "none"
  /\ arg \in KeyInputs
  /\ out = Pending
  /\ log = <<>>
  /\ env = NoEnv
  /\ UiIdle

CallIsValidPrivKey ==
  /\ pc = "call"
  /\ out' = Return(Bool(isValidPrivKey(arg)))
  /\ pc' = "done"
  /\ fn' = "isValidPrivKey"
  /\ UNCHANGED <<arg, log, env, ui>>

NextKey == CallIsValidPrivKey

SpecKey == InitKey /\ [][NextKey]_vars

\* The bytes a string of 2 * KeyBytes hex digits encodes
KeyBytesOf(s) == [i \in 1..KeyBytes |-> 16 * hexValue(s[2 * i - 1]) + hexValue(s[2 * i])]

\* 0 < k < n for the big-endian scalar k
ScalarInRange(bytes) ==
  /\ bytes # [i \in 1..Len(bytes) |-> 0]
  /\ bytesLess(bytes, Secp256k1N)

\* C7: for a string, isValidPrivKey is true only if the string without its
\* optional "0x" prefix is exactly 64 hex digits whose 32 bytes pass the scalar
\* check; for a Buffer, only if it has exactly 32 bytes that pass the scalar
\* check; for any other type it is false. A stripped string of 64 characters
\* with a non-hex character among them is never accepted.
C7_IsValidPrivKey ==
  pc = "done" =>
    /\ out.kind = "return"
    /\ (arg.t = "string" /\ out.val = Bool(TRUE)) =>
         /\ Len(WithoutLower0x(arg.v)) = KeyChars
         /\ \A i \in 1..KeyChars : WithoutLower0x(arg.v)[i] \in HexAnyCase
         /\ ScalarInRange(KeyBytesOf(WithoutLower0x(arg.v)))
    /\ (arg.t = "buffer" /\ out.val = Bool(TRUE)) =>
         /\ Len(arg.v) = KeyBytes
         /\ ScalarInRange(arg.v)
    /\ arg.t \notin {"string", "buffer"} => out.val = Bool(FALSE)
    /\ (/\ arg.t = "string"
        /\ Len(WithoutLower0x(arg.v)) = KeyChars
        /\ \E i \in 1..KeyChars : WithoutLower0x(arg.v)[i] \notin HexAnyCase)
         => out.val = Bool(FALSE)

\* A "0x"-prefixed key of 64 hex digits is accepted.
C7_Witness ==
  /\ pc = "done"
  /\ arg.t = "string"
  /\ Len(arg.v) = KeyChars + 2
  /\ out = Return(Bool(TRUE))

\* A 64-character key whose last characters are not hex digits is rejected.
C7_WitnessNonHex ==
  /\ pc = "done"
  /\ arg.t = "string"
  /\ Len(arg.v) = KeyChars
  /\ arg.v[1] \in HexAnyCase
  /\ arg.v[KeyChars] \notin HexAnyCase
  /\ out = Return(Bool(FALSE))

(***************************************************************************)
(* isValidRawTx                                                            *)
(***************************************************************************)
propReqs ==
  << [name |-> "nonce", type |-> "string", lenReq |-> TRUE],
     [name |-> "gasPrice", type |-> "string", lenReq |-> TRUE],
     [name |-> "gasLimit", type |-> "string", lenReq |-> TRUE],
     [name |-> "to", type |-> "string", lenReq |-> TRUE],
     [name |-> "value", type |-> "string", lenReq |-> TRUE],
     [name |-> "data", type |-> "string", lenReq |-> FALSE],
     [name |-> "chainId", type |-> "number", lenReq |-> FALSE] >>

\* obj[name] for an object: the own property, or undefined
getProperty(obj, name) == IF name \in DOMAIN obj THEN obj[name] ELSE Undefined

\* One pass of the loop body for propReqs[i]: TRUE when no check fails
propPasses(rawTx, prop) ==
  LET value == getProperty(rawTx, prop.name)
  IN IF prop.name \notin DOMAIN rawTx THEN FALSE
     ELSE IF typeof(value) # prop.type THEN FALSE
     ELSE IF prop.type = "string"
     THEN IF prop.lenReq /\ Len(value.v) = 0 THEN FALSE
          ELSE IF Len(value.v) # 0 /\ substring(value.v, 0, 2) # <<"0", "x">> THEN FALSE
          ELSE IF ~isValidHex(value) THEN FALSE
          ELSE TRUE
     ELSE TRUE

\* The loop from propReqs[i] on: FALSE at the first failing property
RECURSIVE propLoop(_, _)
propLoop(rawTx, i) ==
  IF i > Len(propReqs) THEN TRUE
  ELSE IF ~propPasses(rawTx, propReqs[i]) THEN FALSE
  ELSE propLoop(rawTx, i + 1)

CannotReadProperty(name) == Throw("TypeError", <<"Cannot read property ", name>>)

isValidRawTx_NoKeyCount(rawTx) ==
  IF rawTx.t \in {"null", "undefined"} THEN CannotReadProperty("nonce")
  ELSE IF rawTx.t # "object" THEN Return(Bool(FALSE))
  ELSE IF "hasOwnProperty" \in DOMAIN rawTx.v THEN NotAFunction("rawTx.hasOwnProperty")
  ELSE Return(Bool(propLoop(rawTx.v, 1)))

\* rawTx is any JavaScript value: reading a property of null or undefined
\* throws, a primitive has none of the properties, and an object whose own
\* "hasOwnProperty" is not a function cannot be asked for its properties.
isValidRawTx(rawTx) ==
  IF rawTx.t \in {"null", "undefined"} THEN CannotReadProperty("nonce")
  ELSE IF rawTx.t # "object" THEN Return(Bool(FALSE))
  ELSE IF "hasOwnProperty" \in DOMAIN rawTx.v THEN NotAFunction("rawTx.hasOwnProperty")
  ELSE IF ~propLoop(rawTx.v, 1) THEN Return(Bool(FALSE))
  ELSE IF Cardinality(DOMAIN rawTx.v) # Len(propReqs) THEN Return(Bool(FALSE))
  ELSE Return(Bool(TRUE))

(***************************************************************************)
(* Inputs of the raw transaction validator: a valid record with up to      *)
(* MaxEdits of its properties (or of two foreign ones) removed or replaced *)
(***************************************************************************)
MaxEdits == 2
Absent == [t |-> "absent", v |-> "absent"]
TxKeys == {"nonce", "gasPrice", "gasLimit", "to", "value", "data", "chainId"}
ForeignKeys == {"from", "gas"}
TxPool ==
  {Absent, Str(<<>>), Str(<<"1">>), Str(<<"0", "x">>), Str(<<"0", "x", "g">>),
   Str(<<"0", "x", "U+FB00">>), Num(1), Undefined}

BaseTx ==
  [k \in TxKeys \cup ForeignKeys |->
     CASE k \in ForeignKeys -> Absent
       [] k = "chainId" -> Num(1)
       [] k = "data" -> Str(<<>>)
       [] OTHER -> Str(<<"0", "x", "1">>)]

\* The object with the properties of `full` that are present
ObjectOf(full) == [k \in {x \in DOMAIN full : full[x] # Absent} |-> full[k]]

TxRecords ==
  {ObjectOf([k \in DOMAIN BaseTx |-> IF k \in DOMAIN f THEN f[k] ELSE BaseTx[k]]) :
     f \in UNION {[K -> TxPool] :
                    K \in {S \in SUBSET DOMAIN BaseTx : Cardinality(S) <= MaxEdits}}}

InitTx ==
  /\ pc = "call"
  /\ fn = "none"
  /\ arg \in {Obj(r) : r \in TxRecords}
  /\ out = Pending
  /\ log = <<>>
  /\ env = NoEnv
  /\ UiIdle

CallIsValidRawTx ==
  /\ pc = "call"
  /\ out' = isValidRawTx(arg)
  /\ pc' = "done"
  /\ fn' = "isValidRawTx"
  /\ UNCHANGED <<arg, log, env, ui>>

NextTx == CallIsValidRawTx

SpecTx == InitTx /\ [][NextTx]_vars

StringFields == {"nonce", "gasPrice", "gasLimit", "to", "value", "data"}
NonEmptyFields == {"nonce", "gasPrice", "gasLimit", "to", "value"}

C1_WitnessExtra ==
  /\ pc = "done"
  /\ arg.v = [k \in TxKeys \cup {"from"} |-> IF k = "from" THEN Str(<<"0", "x">>) ELSE BaseTx[k]]
  /\ out = Return(Bool(FALSE))

(***************************************************************************)
(* JSON-RPC response validation: schema, isValidResult, formatErrors,      *)
(* isValidEthCall and its named call sites                                 *)
(***************************************************************************)
S_Invalid == <<"I", "n", "v", "a", "l", "i", "d", " ">>
S_Error == <<" ", "E", "r", "r", "o", "r">>
S_GetBalance == <<"G", "e", "t", " ", "B", "a", "l", "a", "n", "c", "e">>
S_TokenBalance == <<"T", "o", "k", "e", "n", " ", "B", "a", "l", "a", "n", "c", "e">>
S_Space == <<" ">>
S_undefined == <<"u", "n", "d", "e", "f", "i", "n", "e", "d">>
S_null == <<"n", "u", "l", "l">>
S_Failed == <<"F", "a", "i", "l", "e", "d">>

\* jsonschema: the type keywords used by the schema
isType(x, type) ==
  CASE type = "string" -> x.t = "string"
    [] type = "integer" -> x.t = "number"
    [] type = "array" -> x.t = "array"
    [] type = "object" -> x.t = "object"

\* jsonschema oneOf: exactly one of the listed types matches
oneOfTypes(x, types) == Cardinality({ty \in types : isType(x, ty)}) = 1

RpcNodeMessageMaxLength == 2
RpcNodeProperties == {"jsonrpc", "id", "result", "status", "message"}

\* v.validate(response, schema.RpcNode).valid
isValidResult(response) ==
  /\ isType(response, "object")
  /\ DOMAIN response.v \subseteq RpcNodeProperties
  /\ "jsonrpc" \in DOMAIN response.v => isType(response.v["jsonrpc"], "string")
  /\ "id" \in DOMAIN response.v => oneOfTypes(response.v["id"], {"string", "integer"})
  /\ "result" \in DOMAIN response.v => oneOfTypes(response.v["result"], {"string", "array"})
  /\ "status" \in DOMAIN response.v => isType(response.v["status"], "string")
  /\ "message" \in DOMAIN response.v =>
       /\ isType(response.v["message"], "string")
       /\ Len(response.v["message"].v) <= RpcNodeMessageMaxLength

\* What a template literal prints for a value
templateString(x) ==
  CASE x.t = "string" -> x.v
    [] x.t = "undefined" -> S_undefined
    [] x.t = "null" -> S_null
    [] OTHER -> <<"?">>

\* An outcome: the message, or the TypeError of reading a property of null
formatErrors(response, apiType) ==
  IF response.t \in {"null", "undefined"} THEN CannotReadProperty("error")
  ELSE IF response.t = "object" /\ ~Falsy(getProperty(response.v, "error"))
  THEN LET error == getProperty(response.v, "error").v
       IN Return(Str(templateString(getProperty(error, "message")) \o S_Space
                       \o templateString(getProperty(error, "data"))))
  ELSE Return(Str(S_Invalid \o apiType \o S_Error))

\* The fallbacks a caller may pass: none, the one of isValidTokenBalance, and
\* one whose result shows the argument it received.
NoFallback == "none"
TokenBalanceFallback == "tokenBalance"
EchoFallback == "echo"

applyFallback(cb, response) ==
  IF cb = TokenBalanceFallback THEN Obj([result |-> Str(S_Failed)])
  ELSE Obj([received |-> response])

FallbackCall(response) == [fn |-> "cb", with |-> response]

isValidEthCall_IgnoresFallback(response, apiName, cb) ==
  IF ~isValidResult(response)
  THEN LET m == formatErrors(response, apiName)
       IN [run |-> IF m.kind = "throw" THEN m ELSE Throw("Error", m.val.v),
           calls |-> <<>>]
  ELSE [run |-> Return(response), calls |-> <<>>]

isValidEthCall_LabelOnly(response, apiName, cb) ==
  IF ~isValidResult(response)
  THEN IF cb # NoFallback
       THEN [run |-> Return(applyFallback(cb, response)),
             calls |-> <<FallbackCall(response)>>]
       ELSE [run |-> Throw("Error", S_Invalid \o apiName \o S_Error), calls |-> <<>>]
  ELSE [run |-> Return(response), calls |-> <<>>]

\* isValidEthCall(response, schema.RpcNode)(apiName, cb):
\* [run |-> outcome, calls |-> calls of the fallback]
isValidEthCall(response, apiName, cb) ==
  IF ~isValidResult(response)
  THEN IF cb # NoFallback
       THEN [run |-> Return(applyFallback(cb, response)),
             calls |-> <<FallbackCall(response)>>]
       ELSE LET m == formatErrors(response, apiName)
            IN [run |-> IF m.kind = "throw" THEN m ELSE Throw("Error", m.val.v),
                calls |-> <<>>]
  ELSE [run |-> Return(response), calls |-> <<>>]

isValidGetBalance(response) == isValidEthCall(response, S_GetBalance, NoFallback)

isValidTokenBalance(response) ==
  isValidEthCall(response, S_TokenBalance, TokenBalanceFallback)

(***************************************************************************)
(* Inputs of the RPC wrappers                                              *)
(***************************************************************************)
ErrorObjects ==
  {Obj([message |-> Str(<<"b", "o", "o", "m">>), data |-> Str(<<"d">>)]), Obj([message |-> Str(<<"b", "o", "o", "m">>)])}

RpcPool ==
  [k \in RpcNodeProperties \cup {"error"} |->
     CASE k = "jsonrpc" -> {Absent, Str(<<"2", ".", "0">>), Num(2)}
       [] k = "id" -> {Absent, Num(1), Str(<<"a">>), Null}
       [] k = "result" -> {Absent, Str(<<"0", "x", "1">>), Arr(<<>>), Num(5)}
       [] k = "status" -> {Absent, Str(<<"1">>)}
       [] k = "message" -> {Absent, Str(<<"O", "K">>), Str(<<"N", "O", "T", "O", "K">>)}
       [] k = "error" -> {Absent, Null} \cup ErrorObjects]

RpcResponses ==
  {Obj(ObjectOf([jsonrpc |-> a, id |-> b, result |-> c, status |-> d, message |-> e,
                 error |-> f])) :
     a \in RpcPool["jsonrpc"], b \in RpcPool["id"], c \in RpcPool["result"],
     d \in RpcPool["status"], e \in RpcPool["message"], f \in RpcPool["error"]}
  \cup {Null, Str(<<"0", "x", "1">>)}

RpcCalls ==
  {[fn |-> "isValidEthCall", response |-> r, apiName |-> a, cb |-> c] :
     r \in RpcResponses, a \in {S_GetBalance, S_TokenBalance},
     c \in {NoFallback, TokenBalanceFallback, EchoFallback}}
  \cup {[fn |-> f, response |-> r, apiName |-> <<>>, cb |-> NoFallback] :
          r \in RpcResponses, f \in {"isValidGetBalance", "isValidTokenBalance"}}

InitRpc ==
  /\ pc = "call"
  /\ fn = "none"
  /\ arg \in RpcCalls
  /\ out = Pending
  /\ log = <<>>
  /\ env = NoEnv
  /\ UiIdle

CallIsValidEthCall ==
  /\ pc = "call"
  /\ arg.fn = "isValidEthCall"
  /\ out' = isValidEthCall(arg.response, arg.apiName, arg.cb).run
  /\ log' = isValidEthCall(arg.response, arg.apiName, arg.cb).calls
  /\ pc' = "done"
  /\ fn' = "isValidEthCall"
  /\ UNCHANGED <<arg, env, ui>>

CallIsValidGetBalance ==
  /\ pc = "call"
  /\ arg.fn = "isValidGetBalance"
  /\ out' = isValidGetBalance(arg.response).run
  /\ log' = isValidGetBalance(arg.response).calls
  /\ pc' = "done"
  /\ fn' = "isValidGetBalance"
  /\ UNCHANGED <<arg, env, ui>>

CallIsValidTokenBalance ==
  /\ pc = "call"
  /\ arg.fn = "isValidTokenBalance"
  /\ out' = isValidTokenBalance(arg.response).run
  /\ log' = isValidTokenBalance(arg.response).calls
  /\ pc' = "done"
  /\ fn' = "isValidTokenBalance"
  /\ UNCHANGED <<arg, env, ui>>

NextRpc == CallIsValidEthCall \/ CallIsValidGetBalance \/ CallIsValidTokenBalance

SpecRpc == InitRpc /\ [][NextRpc]_vars

\* C2: isValidEthCall(response, schema)(label, fallback) returns the response
\* itself, without calling the fallback, when the response passes the schema;
\* when it fails and a fallback is given, the fallback is called once with the
\* response and its result is returned; when it fails and no fallback is given
\* the call throws. isValidTokenBalance gives {result: "Failed"} for every
\* failing response.
C2_IsValidEthCallOutcomes ==
  pc = "done" =>
    /\ (arg.fn = "isValidEthCall" /\ isValidResult(arg.response)) =>
         /\ out = Return(arg.response)
         /\ log = <<>>
    /\ (arg.fn = "isValidEthCall" /\ ~isValidResult(arg.response) /\ arg.cb # NoFallback) =>
         /\ log = <<FallbackCall(arg.response)>>
         /\ out = Return(applyFallback(arg.cb, arg.response))
    /\ (arg.fn = "isValidEthCall" /\ ~isValidResult(arg.response) /\ arg.cb = NoFallback) =>
         out.kind = "throw"
    /\ (arg.fn = "isValidTokenBalance" /\ ~isValidResult(arg.response)) =>
         out = Return(Obj([result |-> Str(S_Failed)]))
    /\ (arg.fn = "isValidTokenBalance" /\ isValidResult(arg.response)) =>
         out = Return(arg.response)

\* A failing response handed to a fallback that shows its argument.
C2_Witness ==
  /\ pc = "done"
  /\ arg.fn = "isValidEthCall"
  /\ arg.cb = EchoFallback
  /\ arg.response.t = "object"
  /\ "error" \in DOMAIN arg.response.v
  /\ out = Return(Obj([received |-> arg.response]))

\* The label a call reports: its own for isValidEthCall, "Get Balance" for
\* isValidGetBalance.
LabelOf(call) == IF call.fn = "isValidGetBalance" THEN S_GetBalance ELSE call.apiName

ThrowingCall(call) ==
  /\ call.fn \in {"isValidEthCall", "isValidGetBalance"}
  /\ call.cb = NoFallback
  /\ ~isValidResult(call.response)

CarriesErrorObject(response) ==
  /\ response.t = "object"
  /\ "error" \in DOMAIN response.v
  /\ response.v["error"].t = "object"

\* The message C3 describes
ExpectedMessage(call) ==
  IF CarriesErrorObject(call.response)
  THEN templateString(getProperty(call.response.v["error"].v, "message")) \o S_Space
         \o templateString(getProperty(call.response.v["error"].v, "data"))
  ELSE S_Invalid \o LabelOf(call) \o S_Error

\* C3 as stated: a failing response without fallback makes the wrapper fail
\* with an InvalidRpcResponseError whose message is "<error.message>
\* <error.data>" when the response carries an error object and "Invalid <label>
\* Error" otherwise.
C3_ThrowsInvalidRpcResponseError ==
  (pc = "done" /\ ThrowingCall(arg)) =>
    out = Throw("InvalidRpcResponseError", ExpectedMessage(arg))

\* C3 amended: a failing response that is not null, without fallback, makes
\* the wrapper throw a plain Error with that message; for a null response the
\* wrapper throws the TypeError of reading null's "error" property.
C3_ThrowsPlainError ==
  (pc = "done" /\ ThrowingCall(arg)) =>
    IF arg.response.t = "null"
    THEN out.kind = "throw" /\ out.name = "TypeError"
    ELSE out = Throw("Error", ExpectedMessage(arg))

\* isValidGetBalance on a failing response without an error object.
C3_Witness ==
  /\ pc = "done"
  /\ arg.fn = "isValidGetBalance"
  /\ arg.response.t = "object"
  /\ "error" \notin DOMAIN arg.response.v
  /\ out = Throw("Error", <<"I", "n", "v", "a", "l", "i", "d", " ", "G", "e", "t", " ", "B", "a", "l", "a", "n", "c", "e", " ", "E", "r", "r", "o", "r">>)

\* A failing response with an error object that has no data.
C3_WitnessErrorObject ==
  /\ pc = "done"
  /\ arg.fn = "isValidEthCall"
  /\ out = Throw("Error", <<"b", "o", "o", "m", " ", "u", "n", "d", "e", "f", "i", "n", "e", "d">>)

(***************************************************************************)
(* isValidENSAddress, isValidENSName                                       *)
(***************************************************************************)
S_eth == <<"e", "t", "h">>
S_test == <<"t", "e", "s", "t">>
S_reverse == <<"r", "e", "v", "e", "r", "s", "e">>
S_constructor == <<"c", "o", "n", "s", "t", "r", "u", "c", "t", "o", "r">>
S_toString == <<"t", "o", "S", "t", "r", "i", "n", "g">>
S_valueOf == <<"v", "a", "l", "u", "e", "O", "f">>
S_hasOwnProperty == <<"h", "a", "s", "O", "w", "n", "P", "r", "o", "p", "e", "r", "t", "y">>

LettersLower ==
  {"a", "b", "c", "d", "e", "f", "g", "h", "i", "j", "k", "l", "m", "n", "o", "p", "q",
   "r", "s", "t", "u", "v", "w", "x", "y", "z"}
LettersUpper ==
  {"A", "B", "C", "D", "E", "F", "G", "H", "I", "J", "K", "L", "M", "N", "O", "P", "Q",
   "R", "S", "T", "U", "V", "W", "X", "Y", "Z"}
LetterPairs ==
  << <<"A", "a">>, <<"B", "b">>, <<"C", "c">>, <<"D", "d">>, <<"E", "e">>, <<"F", "f">>,
     <<"G", "g">>, <<"H", "h">>, <<"I", "i">>, <<"J", "j">>, <<"K", "k">>, <<"L", "l">>,
     <<"M", "m">>, <<"N", "n">>, <<"O", "o">>, <<"P", "p">>, <<"Q", "q">>, <<"R", "r">>,
     <<"S", "s">>, <<"T", "t">>, <<"U", "u">>, <<"V", "v">>, <<"W", "w">>, <<"X", "x">>,
     <<"Y", "y">>, <<"Z", "z">> >>

\* Case folding of one character
foldChar(c) ==
  IF c \in LettersUpper
  THEN LetterPairs[CHOOSE i \in 1..Len(LetterPairs) : LetterPairs[i][1] = c][2]
  ELSE c

\* ./ens normalise: the name case-folded; it throws for a value that is not a
\* string and for a name with a character a domain name may not hold.
\* [ok |-> whether it returned, val |-> the normalized name]
normalise(name) ==
  IF name.t # "string" THEN [ok |-> FALSE, val |-> <<>>]
  ELSE IF \E i \in 1..Len(name.v) :
            name.v[i] \notin LettersLower \cup LettersUpper \cup Digits \cup {".", "-"}
  THEN [ok |-> FALSE, val |-> <<>>]
  ELSE [ok |-> TRUE, val |-> [i \in 1..Len(name.v) |-> foldChar(name.v[i])]]

\* String.prototype.lastIndexOf(c): 0-based, -1 when c does not occur
lastIndexOf(s, c) ==
  IF \E i \in 1..Len(s) : s[i] = c
  THEN (CHOOSE i \in 1..Len(s) : s[i] = c /\ \A j \in (i + 1)..Len(s) : s[j] # c) - 1
  ELSE -1

\* Properties every object literal inherits from Object.prototype
ObjectPrototypeProperties == {S_constructor, S_toString, S_valueOf, S_hasOwnProperty}

validTLDs == {S_eth, S_test, S_reverse}

\* Whether validTLDs[tld] is truthy: an own property (true), or a property
\* inherited from Object.prototype (a function)
validTLDsLookup(tld) == tld \in validTLDs \/ tld \in ObjectPrototypeProperties

isValidENSAddress(address) ==
  LET normalized == normalise(address)
  IN IF ~normalized.ok THEN FALSE
     ELSE LET tld == substringFrom(normalized.val, lastIndexOf(normalized.val, ".") + 1)
          IN IF validTLDsLookup(tld) THEN TRUE ELSE FALSE

(***************************************************************************)
(* Inputs of the name validator                                            *)
(***************************************************************************)
MaxLabel == 2
LabelAlphabet == {"a", "A", ".", "!"}
Suffixes ==
  {S_eth, S_test, S_reverse, <<"E", "T", "H">>, <<"c", "o", "m">>, <<"e", "t">>, <<>>,
   S_constructor, S_toString}

EnsStrings ==
  {h \o d \o t : h \in StringsUpTo(LabelAlphabet, MaxLabel), d \in {<<>>, <<".">>},
                 t \in Suffixes}

InitEns ==
  /\ pc = "call"
  /\ fn = "none"
  /\ arg \in {Str(s) : s \in EnsStrings}
  /\ out = Pending
  /\ log = <<>>
  /\ env = NoEnv
  /\ UiIdle

CallIsValidENSAddress ==
  /\ pc = "call"
  /\ out' = Return(Bool(isValidENSAddress(arg)))
  /\ pc' = "done"
  /\ fn' = "isValidENSAddress"
  /\ UNCHANGED <<arg, log, env, ui>>

NextEns == CallIsValidENSAddress

SpecEns == InitEns /\ [][NextEns]_vars

\* The part of s after its last '.', all of s when it has none
AfterLastDot(s) ==
  LET dots == {i \in 1..Len(s) : s[i] = "."}
  IN IF dots = {} THEN s
     ELSE SubSeq(s, (CHOOSE i \in dots : \A j \in dots : j <= i) + 1, Len(s))

\* C9: isValidENSAddress(address) is true exactly when normalization succeeds
\* and the part of the normalized address after its last '.' is "eth", "test"
\* or "reverse"; any other suffix, the name of a built-in object property
\* included, gives false.
C9_OnlyAllowListedSuffixes ==
  pc = "done" =>
    (out = Return(Bool(TRUE))) <=>
      /\ normalise(arg).ok
      /\ AfterLastDot(normalise(arg).val) \in {S_eth, S_test, S_reverse}

(***************************************************************************)
(* isValidPath, isValidEncryptedPrivKey, isValidENSName, isValidAbiJson,   *)
(* isValidENSorEtherAddress                                                *)
(***************************************************************************)
EncryptedKeyChars == 128
EncryptedKeyCharsPrefixed == 132
MinEnsNameChars == 6
PathSegments == 3
PathSegmentsLong == 4

\* dPath.split("'/").length for a string
splitCount(s) == Cardinality({i \in 1..(Len(s) - 1) : s[i] = "'" /\ s[i + 1] = "/"}) + 1

isValidPath(dPath) ==
  IF dPath.t \in {"null", "undefined"} THEN CannotReadProperty("split")
  ELSE IF dPath.t # "string" THEN NotAFunction("dPath.split")
  ELSE LET len == splitCount(dPath.v)
       IN Return(Bool(len = PathSegments \/ len = PathSegmentsLong))

isValidEncryptedPrivKey(privkey) ==
  IF typeof(privkey) = "string"
  THEN Len(privkey.v) = EncryptedKeyChars \/ Len(privkey.v) = EncryptedKeyCharsPrefixed
  ELSE FALSE

\* Every exception inside the try block gives false.
isValidENSName(str) ==
  IF str.t # "string" THEN FALSE
  ELSE /\ Len(str.v) > MinEnsNameChars
       /\ normalise(str).ok
       /\ normalise(str).val # <<>>
       /\ substring(str.v, 0, 2) # <<"0", "x">>

\* abiJson && abiJson.startsWith('[') && abiJson.endsWith(']')
isValidAbiJson(abiJson) ==
  IF Falsy(abiJson) THEN Return(abiJson)
  ELSE IF abiJson.t # "string" THEN NotAFunction("abiJson.startsWith")
  ELSE Return(Bool(abiJson.v[1] = "[" /\ abiJson.v[Len(abiJson.v)] = "]"))

isValidENSorEtherAddress(address, e) ==
  LET eth == isValidETHAddress(address, e).run
  IN IF eth.kind = "throw" THEN eth
     ELSE IF eth.val = Bool(TRUE) THEN eth
     ELSE Return(Bool(isValidENSAddress(address)))

(***************************************************************************)
(* The format checks applied to any JavaScript value                       *)
(***************************************************************************)
LowerAddress == <<"0", "x">> \o [i \in 1..AddrLen |-> "a"]

AnyInputs ==
  NonStrings
    \cup {Str(s) : s \in {<<>>, <<"0", "x">>, ZeroAddress, LowerAddress, <<"a", ".", "e", "t", "h">>,
                          <<"m", "/", "4", "4", "'", "/", "0", "'", "/", "0", "'", "/", "0">>, <<"m", "/", "4", "4", "'", "/", "0">>, <<"[", "1", "]">>, <<"{", "1", "}">>, <<"v", "i", "t", "a", "l", "i", "k", ".", "e", "t", "h">>}}
    \cup {Arr(<<>>), Num(1), Bool(FALSE), Obj(ObjectOf(BaseTx)),
          Obj([k \in TxKeys \cup {"hasOwnProperty"} |->
                 IF k = "hasOwnProperty" THEN Num(1) ELSE BaseTx[k]])}

InitTotal ==
  /\ pc = "call"
  /\ fn = "none"
  /\ arg \in AnyInputs
  /\ out = Pending
  /\ log = <<>>
  /\ env \in KeccakEnvs
  /\ UiIdle

CallIsValidPath ==
  /\ pc = "call"
  /\ out' = isValidPath(arg)
  /\ pc' = "done"
  /\ fn' = "isValidPath"
  /\ UNCHANGED <<arg, log, env, ui>>

CallIsValidEncryptedPrivKey ==
  /\ pc = "call"
  /\ out' = Return(Bool(isValidEncryptedPrivKey(arg)))
  /\ pc' = "done"
  /\ fn' = "isValidEncryptedPrivKey"
  /\ UNCHANGED <<arg, log, env, ui>>

CallIsValidENSName ==
  /\ pc = "call"
  /\ out' = Return(Bool(isValidENSName(arg)))
  /\ pc' = "done"
  /\ fn' = "isValidENSName"
  /\ UNCHANGED <<arg, log, env, ui>>

CallIsValidAbiJson ==
  /\ pc = "call"
  /\ out' = isValidAbiJson(arg)
  /\ pc' = "done"
  /\ fn' = "isValidAbiJson"
  /\ UNCHANGED <<arg, log, env, ui>>

CallIsValidENSorEtherAddress ==
  /\ pc = "call"
  /\ out' = isValidENSorEtherAddress(arg, env)
  /\ pc' = "done"
  /\ fn' = "isValidENSorEtherAddress"
  /\ UNCHANGED <<arg, log, env, ui>>

NextTotal ==
  \/ CallIsValidETHAddress
  \/ CallIsValidHex
  \/ CallIsValidPrivKey
  \/ CallIsValidRawTx
  \/ CallIsValidENSAddress
  \/ CallIsValidENSName
  \/ CallIsValidENSorEtherAddress
  \/ CallIsValidPath
  \/ CallIsValidEncryptedPrivKey
  \/ CallIsValidAbiJson

SpecTotal == InitTotal /\ [][NextTotal]_vars

\* C8: every format check returns a result for every input and never throws.
C8_FormatChecksNeverThrow == pc = "done" => out.kind = "return"

\* C8, for inputs of the declared parameter types only: a string for the
\* string validators, a record of own properties that does not shadow
\* hasOwnProperty for isValidRawTx.
C8_TypedInputsNeverThrow ==
  (/\ pc = "done"
   /\ \/ fn # "isValidRawTx" /\ arg.t = "string"
      \/ fn = "isValidPrivKey" /\ arg.t = "buffer"
      \/ fn = "isValidRawTx" /\ arg.t = "object" /\ "hasOwnProperty" \notin DOMAIN arg.v)
  => out.kind = "return"

(***************************************************************************)
(* isValidBTCAddress                                                       *)
(***************************************************************************)
Base58 ==
  (Digits \ {"0"}) \cup (LettersUpper \ {"I", "O"}) \cup (LettersLower \ {"l"})

\* WalletAddressValidator.validate(address, 'BTC'): a base58 string of the
\* length of a 25-byte payload, with the version of a P2PKH or P2SH address
\* and a matching checksum. The double SHA-256 is not computed: env says
\* whether the checksum of the address of this run matches.
isValidBTCAddress(address, e) ==
  /\ address.t = "string"
  /\ Len(address.v) >= 26
  /\ Len(address.v) <= 35
  /\ \A i \in 1..Len(address.v) : address.v[i] \in Base58
  /\ address.v[1] \in {"1", "3"}
  /\ e.btcChecksumOk

(***************************************************************************)
(* ReceivingAddress: render, onChangeDestinationAddress,                   *)
(* onClickPartTwoComplete                                                  *)
(***************************************************************************)
\* utils/formatters combineAndUpper
combineAndUpper(a, b) == toUpperCase(a \o b)

\* actions/swap destinationAddressSwap and its reducer: the store's
\* destinationAddress, handed back as a prop, becomes the dispatched value
destinationAddressSwap(value) == value

\* components/ui/SimpleButton: a disabled button delivers no click
simpleButtonDelivers(disabled) == ~disabled

\* render(): the disabled attribute of the submit button
render_AlwaysEth(dest, address, e) ==
  LET validAddress == isValidETHAddress(Str(address), e).run.val.v
  IN ~validAddress

render(dest, address, e) ==
  LET validAddress ==
        IF dest.id = <<"B", "T", "C">>
        THEN isValidBTCAddress(Str(address), e)
        ELSE isValidETHAddress(Str(address), e).run.val.v
  IN ~validAddress

MaxRequests == 2

UiAddresses ==
  {<<>>, ZeroAddress, LowerAddress,
   <<"0", "x">> \o [i \in 1..AddrLen |-> "A"],
   <<"0", "x", "A">> \o [i \in 1..(AddrLen - 1) |-> "a"],
   [i \in 1..AddrLen |-> "a"],
   <<"0", "x">> \o [i \in 1..(AddrLen - 1) |-> "a"],
   <<"0", "x", "g">> \o [i \in 1..(AddrLen - 1) |-> "a"],
   <<"1">> \o [i \in 1..33 |-> "A"],
   <<"3">> \o [i \in 1..33 |-> "A"],
   <<"1", "0">> \o [i \in 1..32 |-> "A"],
   <<"1">> \o [i \in 1..20 |-> "A"]}

UiEnvs ==
  {[keccakHead |-> <<h>>, keccakFill |-> FALSE, btcChecksumOk |-> b] :
     h \in BOOLEAN, b \in BOOLEAN}

SwapInputs == {[id |-> <<"B", "T", "C">>, amount |-> 1], [id |-> <<"E", "T", "H">>, amount |-> 1]}

Init ==
  /\ pc = "idle"
  /\ fn = "none"
  /\ arg = Undefined
  /\ out = Pending
  /\ log = <<>>
  /\ env \in UiEnvs
  /\ destinationAddress = <<>>
  /\ destination \in {[id |-> <<"B", "T", "C">>], [id |-> <<"E", "T", "H">>], [id |-> <<"R", "E", "P">>]}
  /\ origin \in {Null} \cup {Obj(o) : o \in SwapInputs}
  /\ submitDisabled = render(destination, destinationAddress, env)
  /\ requests = {}

\* The input's onChange: destinationAddressSwap(value) puts the value in the
\* store, and the component renders again with it.
OnChangeDestinationAddress ==
  \E value \in UiAddresses :
    /\ destinationAddress' = destinationAddressSwap(value)
    /\ submitDisabled' = render(destination, destinationAddressSwap(value), env)
    /\ UNCHANGED <<pc, fn, arg, out, log, env, destination, origin, requests>>

\* A click on the submit button, which a disabled button does not deliver.
OnClickPartTwoComplete ==
  /\ simpleButtonDelivers(submitDisabled)
  /\ Cardinality(requests) < MaxRequests
  /\ IF Falsy(origin)
     THEN UNCHANGED requests
     ELSE requests' = requests \cup
            {[amount |-> origin.v.amount,
              destinationAddress |-> destinationAddress,
              pair |-> combineAndUpper(origin.v.id, destination.id)]}
  /\ UNCHANGED <<pc, fn, arg, out, log, env, destinationAddress, destination, origin,
                 submitDisabled>>

Next == OnChangeDestinationAddress \/ OnClickPartTwoComplete

Spec == Init /\ [][Next]_vars

\* Whether an address is valid for the destination currency
ValidForDestination(address) ==
  IF destination.id = <<"B", "T", "C">>
  THEN isValidBTCAddress(Str(address), env)
  ELSE isValidETHAddress(Str(address), env).run = Return(Bool(TRUE))

\* C10: after any sequence of destination-address edits the submit button is
\* enabled exactly when the current destinationAddress passes isValidBTCAddress
\* for destination BTC and isValidETHAddress otherwise; every order-creation
\* request issued through the button carries an address valid for the
\* destination currency, and none is issued while origin is absent.
C10_SubmitGatedByValidAddress ==
  /\ ~submitDisabled <=> ValidForDestination(destinationAddress)
  /\ \A r \in requests :
       /\ ValidForDestination(r.destinationAddress)
       /\ ~Falsy(origin)
       /\ r.amount = origin.v.amount

\* An order was requested for a BTC destination after the address was edited.
C10_Witness ==
  /\ destination.id = <<"B", "T", "C">>
  /\ requests # {}
  /\ destinationAddress \notin {r.destinationAddress : r \in requests}
  /\ submitDisabled
====
